---- MODULE Spec2Model ----
(***************************************************************************)
(* Markdown -> rich text engine of the task export scripts.                *)
(*                                                                         *)
(* Two copies of buildRichTextFromMarkdown_ exist in the repository:       *)
(*   "p1"  src/unnamed/part_001 lines 205-356 (regex marking, then         *)
(*         expansion of control-character marker pairs)                    *)
(*   "p2"  src/unnamed/part_002 lines 216-300 (scan for the literal        *)
(*         tokens)                                                         *)
(* and stripMarkdown_ (part_001 359-369, part_002 303-313, identical).     *)
(*                                                                         *)
(* A JavaScript string is modelled as a sequence of code units, each code  *)
(* unit a one-element TLA+ string; the control characters and the bullet   *)
(* glyph are written "u0000", "u0001", ..., "u2022", the backquote         *)
(* "u0060".  Offsets are 0-based as in the code; Slice and IndexOf follow  *)
(* String.prototype.slice and String.prototype.indexOf.                    *)
(***************************************************************************)
EXTENDS Integers, Sequences, FiniteSets, TLC

VARIABLES variant, arg, pc, md, text, linkRuns, runs, linkIdx, final, thrown, s,
          pass, pos, acc,
          range, sheet, server, page, iter, results, rows, log,
          tasks, children, stack, result

\* pass, pos and acc are the locals of the loop that is running: the kind of
\* the pass, the cursor i, and the output built so far (tmp of the link loop,
\* out of expandStyle)
\* the state of the TasCVE export (part_000): the date window, the rows of the
\* tab, the answers of the endpoint by page number, the locals page, i and
\* results of fetchAdvisoriesWindowed_, the rows to write, and the calls made
\* to the spreadsheet and to the endpoint so far
exportVars == <<range, sheet, server, page, iter, results, rows, log>>

\* the state of orderTasksHierarchically_: its argument, the children map,
\* the pending calls of dfs, and result
taskVars == <<tasks, children, stack, result>>

vars == <<variant, arg, pc, md, text, linkRuns, runs, linkIdx, final, thrown, s,
          pass, pos, acc, exportVars, taskVars>>

----------------------------------------------------------------------------
(* Strings                                                                  *)

Min(S) == CHOOSE x \in S : \A y \in S : x <= y

Max(S) == CHOOSE x \in S : \A y \in S : x >= y

\* s[i] of JavaScript, 0-based
CharAt(str, i) == str[i + 1]

\* str.slice(a, b) for 0 <= a <= b <= str.length
Slice(str, a, b) == SubSeq(str, a + 1, b)

\* str.slice(a)
SliceFrom(str, a) == SubSeq(str, a + 1, Len(str))

StartsWithAt(str, tok, i) ==
    /\ i >= 0
    /\ i + Len(tok) <= Len(str)
    /\ SubSeq(str, i + 1, i + Len(tok)) = tok

\* str.indexOf(tok, from): least position >= from where tok occurs, else -1
IndexOf(str, tok, from) ==
    LET C == {i \in from .. (Len(str) - Len(tok)) : StartsWithAt(str, tok, i)}
    IN  IF C = {} THEN -1 ELSE Min(C)

\* \s of the regular expressions, restricted to the code units of the model
IsWs(c) == c \in {" ", "\t", "\n", "\r"}

\* line terminators: what "." does not match and what "^"/"$" look at under /m
IsLineTerm(c) == c \in {"\n", "\r"}

\* length of the maximal run of characters satisfying a class, from position i
WsRun(str, i) ==
    LET C == {k \in 0 .. (Len(str) - i) : \A j \in i .. (i + k - 1) : IsWs(CharAt(str, j))}
    IN  Max(C)

\* String.prototype.trimStart in place of trim
TrimStartOnly(str) ==
    LET N == {i \in 0 .. (Len(str) - 1) : ~IsWs(CharAt(str, i))}
    IN  IF N = {} THEN <<>> ELSE SliceFrom(str, Min(N))

\* String.prototype.trim
Trim(str) ==
    LET N == {i \in 0 .. (Len(str) - 1) : ~IsWs(CharAt(str, i))}
    IN  IF N = {} THEN <<>> ELSE Slice(str, Min(N), Max(N) + 1)

\* "^" under the m flag
AtLineStart(str, p) == p = 0 \/ IsLineTerm(CharAt(str, p - 1))

----------------------------------------------------------------------------
(* Line normalisation                                                       *)

\* String(md) in place of md || '' : an absent argument becomes "undefined"
CoerceMdToText(a) ==
    IF a.defined THEN a.str ELSE <<"u", "n", "d", "e", "f", "i", "n", "e", "d">>

\* md = md || ''
CoerceMd(a) == IF a.defined THEN a.str ELSE <<>>

\* the replace without the optional \n: /\r/g
RECURSIVE NormalizeEolEachCr(_, _)
NormalizeEolEachCr(str, i) ==
    IF i >= Len(str) THEN <<>>
    ELSE IF CharAt(str, i) = "\r"
         THEN <<"\n">> \o NormalizeEolEachCr(str, i + 1)
         ELSE <<CharAt(str, i)>> \o NormalizeEolEachCr(str, i + 1)

\* md.replace(/\r\n?/g, '\n')
RECURSIVE NormalizeEolFrom(_, _)
NormalizeEolFrom(str, i) ==
    IF i >= Len(str) THEN <<>>
    ELSE IF CharAt(str, i) = "\r"
         THEN IF i + 1 < Len(str) /\ CharAt(str, i + 1) = "\n"
              THEN <<"\n">> \o NormalizeEolFrom(str, i + 2)
              ELSE <<"\n">> \o NormalizeEolFrom(str, i + 1)
         ELSE <<CharAt(str, i)>> \o NormalizeEolFrom(str, i + 1)

NormalizeEol(str) == NormalizeEolFrom(str, 0)

\* /^(#{1,6})\s*(.+)$/m tried at position p.  (#{1,6}) and \s* are greedy and
\* give characters back until (.+) finds one character that is not a line
\* terminator; (.+) then runs to the end of that line, where $ holds.
\* Result: <<>> when there is no match, else <<[textFrom, to]>> with the
\* capture of group 2 at [textFrom, to) and the match ending at to.
HeadingMatchAt(str, p) ==
    IF ~AtLineStart(str, p) THEN <<>>
    ELSE
    LET HW == {hw \in (1 .. 6) \X (0 .. Len(str)) :
                 /\ p + hw[1] + hw[2] < Len(str)
                 /\ \A j \in p .. (p + hw[1] - 1) : CharAt(str, j) = "#"
                 /\ \A j \in (p + hw[1]) .. (p + hw[1] + hw[2] - 1) : IsWs(CharAt(str, j))
                 /\ ~IsLineTerm(CharAt(str, p + hw[1] + hw[2]))}
    IN  IF HW = {} THEN <<>>
        ELSE LET h  == Max({hw[1] : hw \in HW})
                 w  == Max({hw[2] : hw \in {x \in HW : x[1] = h}})
                 tf == p + h + w
                 E  == {e \in tf .. (Len(str) - 1) : IsLineTerm(CharAt(str, e))}
                 to == IF E = {} THEN Len(str) ELSE Min(E)
             IN  <<[textFrom |-> tf, to |-> to]>>

\* the expression without its leading \s*: /^[-*]\s+/m
BulletMatchAtNoIndent(str, p) ==
    IF ~AtLineStart(str, p) THEN <<>>
    ELSE IF p < Len(str) /\ CharAt(str, p) \in {"-", "*"} /\ WsRun(str, p + 1) >= 1
         THEN <<p + 1 + WsRun(str, p + 1)>>
         ELSE <<>>

\* /^\s*[-*]\s+/m tried at position p; result <<>> or <<end of the match>>
BulletMatchAt(str, p) ==
    IF ~AtLineStart(str, p) THEN <<>>
    ELSE LET m == p + WsRun(str, p)
         IN  IF m < Len(str) /\ CharAt(str, m) \in {"-", "*"} /\ WsRun(str, m + 1) >= 1
             THEN <<m + 1 + WsRun(str, m + 1)>>
             ELSE <<>>

\* md.replace(/^(#{1,6})\s*(.+)$/gm, (_, __, text) => '**' + text.trim() + '**')
RECURSIVE HeadingsToBoldFrom(_, _)
HeadingsToBoldFrom(str, i) ==
    IF i >= Len(str) THEN <<>>
    ELSE LET m == HeadingMatchAt(str, i)
         IN  IF m = <<>>
             THEN <<CharAt(str, i)>> \o HeadingsToBoldFrom(str, i + 1)
             ELSE <<"*", "*">> \o Trim(Slice(str, m[1].textFrom, m[1].to)) \o <<"*", "*">>
                  \o HeadingsToBoldFrom(str, m[1].to)

HeadingsToBold(str) == HeadingsToBoldFrom(str, 0)

\* md.replace(/^\s*[-*]\s+/gm, '• ')
RECURSIVE BulletsToGlyphFrom(_, _)
BulletsToGlyphFrom(str, i) ==
    IF i >= Len(str) THEN <<>>
    ELSE LET m == BulletMatchAt(str, i)
         IN  IF m = <<>>
             THEN <<CharAt(str, i)>> \o BulletsToGlyphFrom(str, i + 1)
             ELSE <<"u2022", " ">> \o BulletsToGlyphFrom(str, m[1])

BulletsToGlyph(str) == BulletsToGlyphFrom(str, 0)

----------------------------------------------------------------------------
(* Links                                                                    *)

\* the url class without the whitespace exclusion: [^)]
UrlRunWithBlanks(str, i) ==
    LET C == {k \in 0 .. (Len(str) - i) : \A j \in i .. (i + k - 1) : CharAt(str, j) # ")"}
    IN  Max(C)

\* length of the maximal run of [^\s)] characters from position i
UrlRun(str, i) ==
    LET C == {k \in 0 .. (Len(str) - i) :
                \A j \in i .. (i + k - 1) : ~IsWs(CharAt(str, j)) /\ CharAt(str, j) # ")"}
    IN  Max(C)

\* /\[([^\]]+)\]\((https?:\/\/[^\s)]+)\)/ tried at position p.
\* Result: <<>> or <<[labelFrom, labelTo, urlFrom, urlTo, to]>>.
LinkMatchAt(str, p) ==
    IF ~StartsWithAt(str, <<"[">>, p) THEN <<>>
    ELSE
    LET rb == IndexOf(str, <<"]">>, p + 1)
    IN  IF rb < p + 2 \/ ~StartsWithAt(str, <<"(", "h", "t", "t", "p">>, rb + 1) THEN <<>>
        ELSE
        LET uf == rb + 2
            sl == IF StartsWithAt(str, <<"s">>, uf + 4) THEN uf + 5 ELSE uf + 4
        IN  IF ~StartsWithAt(str, <<":", "/", "/">>, sl) THEN <<>>
            ELSE
            LET ut == sl + 3 + UrlRun(str, sl + 3)
            IN  IF ut > sl + 3 /\ StartsWithAt(str, <<")">>, ut)
                THEN <<[labelFrom |-> p + 1, labelTo |-> rb,
                        urlFrom |-> uf, urlTo |-> ut, to |-> ut + 1]>>
                ELSE <<>>

\* md.replace(/\[([^\]]+)\]\((https?:\/\/[^\s)]+)\)/g, (m, label, url) =>
\*   { linkRuns.push({ label, url }); return '\u0000' + label + '\u0001'; })
RECURSIVE ExtractLinksFrom(_, _, _, _)
ExtractLinksFrom(str, i, out, queue) ==
    IF i >= Len(str) THEN [text |-> out, linkRuns |-> queue]
    ELSE LET m == LinkMatchAt(str, i)
         IN  IF m = <<>>
             THEN ExtractLinksFrom(str, i + 1, Append(out, CharAt(str, i)), queue)
             ELSE LET label == Slice(str, m[1].labelFrom, m[1].labelTo)
                      url   == Slice(str, m[1].urlFrom, m[1].urlTo)
                  IN  ExtractLinksFrom(str, m[1].to,
                                       out \o <<"u0000">> \o label \o <<"u0001">>,
                                       Append(queue, [label |-> label, url |-> url]))

ExtractLinks(str) == ExtractLinksFrom(str, 0, <<>>, <<>>)

----------------------------------------------------------------------------
(* part_001: bold / italic / code spans rewritten to marker pairs           *)

\* the regular expression of one kind tried at position p;
\* result <<>> or <<[innerFrom, innerTo, to]>>
\*   bold    /\*\*(.+?)\*\*/    italic  /\*(.+?)\*/    code  /u0060([^u0060]+)u0060/
\* (.+?) is lazy: the shortest non-empty inner without a line terminator that
\* is followed by the close token; the code class runs to the next backquote.
StyleMatchAt(kind, str, p) ==
    IF kind = "code"
    THEN IF ~StartsWithAt(str, <<"u0060">>, p) THEN <<>>
         ELSE LET c == IndexOf(str, <<"u0060">>, p + 1)
              IN  IF c < p + 2 THEN <<>>
                  ELSE <<[innerFrom |-> p + 1, innerTo |-> c, to |-> c + 1]>>
    ELSE LET tok == IF kind = "bold" THEN <<"*", "*">> ELSE <<"*">>
             n   == Len(tok)
         IN  IF ~StartsWithAt(str, tok, p) THEN <<>>
             ELSE LET K == {k \in 1 .. (Len(str) - p - n) :
                              /\ \A j \in (p + n) .. (p + n + k - 1) : ~IsLineTerm(CharAt(str, j))
                              /\ StartsWithAt(str, tok, p + n + k)}
                  IN  IF K = {} THEN <<>>
                      ELSE <<[innerFrom |-> p + n, innerTo |-> p + n + Min(K),
                              to |-> p + n + Min(K) + n]>>

\* text.replace(re, (m, inner) => openMarker + inner + closeMarker)
RECURSIVE MarkStyleFrom(_, _, _, _, _)
MarkStyleFrom(kind, str, i, openMarker, closeMarker) ==
    IF i >= Len(str) THEN <<>>
    ELSE LET m == StyleMatchAt(kind, str, i)
         IN  IF m = <<>>
             THEN <<CharAt(str, i)>> \o MarkStyleFrom(kind, str, i + 1, openMarker, closeMarker)
             ELSE <<openMarker>> \o Slice(str, m[1].innerFrom, m[1].innerTo) \o <<closeMarker>>
                  \o MarkStyleFrom(kind, str, m[1].to, openMarker, closeMarker)

\* the three replace calls of part_001 lines 229-244, in their order
MarkStyles(str) ==
    LET b == MarkStyleFrom("bold", str, 0, "u0002", "u0003")
        i == MarkStyleFrom("italic", b, 0, "u0004", "u0005")
    IN  MarkStyleFrom("code", i, 0, "u0006", "u0007")

----------------------------------------------------------------------------
(* Expansion passes                                                         *)

\* runs.unshift(run) in place of runs.push(run)
PushRunFront(rs, run) == <<run>> \o rs

\* runs.push(run)
PushRun(rs, run) == Append(rs, run)

\* the loop without linkIdx++
NextLinkIdxStuck(idx) == idx

\* linkIdx++ : one queue entry per resolved sentinel pair
NextLinkIdx(idx) == idx + 1

\* the unterminated branch without its out += ...
LiteralOpenDropped(src, o, open) == <<>>

\* out += src.slice(o, o + open.length) : an open token without a close
\* token is copied to the output as literal text
LiteralOpen(src, o, open) == Slice(src, o, o + Len(open))

\* i = o in place of i = o + open.length
AfterOpenStuck(o, open) == o

\* i = o + open.length : the cursor behind an open token without a close token
AfterOpen(o, open) == o + Len(open)

\* text.slice(i, close) in place of text.slice(i + 1, close)
SentinelLabelWithOpen(str, i, close) == Slice(str, i, close)

\* const label = text.slice(i + 1, close)
SentinelLabel(str, i, close) == Slice(str, i + 1, close)

\* the dereference without the && guard
UrlOfEntryUnguarded(queue, idx) ==
    IF idx < Len(queue)
    THEN [thrown |-> FALSE, truthy |-> queue[idx + 1].url # <<>>, url |-> queue[idx + 1].url]
    ELSE [thrown |-> TRUE, truthy |-> FALSE, url |-> <<>>]

\* const url = linkRuns[linkIdx] && linkRuns[linkIdx].url;
\* truthy tells whether the value passes "if (url)"; thrown whether the
\* expression dereferenced an undefined entry (TypeError).  The && guard
\* keeps an index past the end of the queue from being dereferenced.
UrlOfEntry(queue, idx) ==
    IF idx < Len(queue)
    THEN [thrown |-> FALSE, truthy |-> queue[idx + 1].url # <<>>, url |-> queue[idx + 1].url]
    ELSE [thrown |-> FALSE, truthy |-> FALSE, url |-> <<>>]

\* The link expansion loop.  Result [text, runs, linkIdx, thrown]; thrown is
\* TRUE when the loop dereferences an undefined queue entry (a TypeError).
\* A run carries, besides the fields the code stores, the history field
\* inner: the content that stood between its delimiters when it was recorded.
RECURSIVE ExpandLinksFrom(_, _, _, _, _, _)
ExpandLinksFrom(str, i, tmp, rs, idx, queue) ==
    IF i >= Len(str) THEN [text |-> tmp, runs |-> rs, linkIdx |-> idx, thrown |-> FALSE]
    ELSE IF CharAt(str, i) = "u0000"
         THEN LET close == IndexOf(str, <<"u0001">>, i + 1)
              IN  IF close = -1
                  THEN ExpandLinksFrom(str, i + 1, Append(tmp, CharAt(str, i)), rs, idx, queue)
                  ELSE LET label == SentinelLabel(str, i, close)
                           start == Len(tmp)
                           end   == Len(tmp \o label)
                           url   == UrlOfEntry(queue, idx)
                       IN  IF url.thrown
                           THEN [text |-> tmp, runs |-> rs, linkIdx |-> idx, thrown |-> TRUE]
                           ELSE ExpandLinksFrom(str, close + 1, tmp \o label,
                                    IF url.truthy
                                    THEN PushRun(rs, [start |-> start, end |-> end, type |-> "link",
                                                      url |-> url.url, inner |-> label])
                                    ELSE rs,
                                    NextLinkIdx(idx), queue)
         ELSE ExpandLinksFrom(str, i + 1, Append(tmp, CharAt(str, i)), rs, idx, queue)

\* expandStyle(src, open, close, type); base is final.length, which part_001
\* adds to the offsets (final is still empty there) and part_002 does not have.
RECURSIVE ExpandStyleFrom(_, _, _, _, _, _, _, _)
ExpandStyleFrom(src, open, close, type, i, out, rs, base) ==
    IF i >= Len(src) THEN [text |-> out, runs |-> rs]
    ELSE LET o == IndexOf(src, open, i)
         IN  IF o = -1 THEN [text |-> out \o SliceFrom(src, i), runs |-> rs]
             ELSE LET out1 == out \o Slice(src, i, o)
                      c    == IndexOf(src, close, o + Len(open))
                  IN  IF c = -1
                      THEN ExpandStyleFrom(src, open, close, type, AfterOpen(o, open),
                                           out1 \o LiteralOpen(src, o, open), rs, base)
                      ELSE LET inner == Slice(src, o + Len(open), c)
                               start == base + Len(out1)
                               end   == base + Len(out1 \o inner)
                           IN  ExpandStyleFrom(src, open, close, type, c + Len(close),
                                               out1 \o inner,
                                               PushRun(rs, [start |-> start, end |-> end,
                                                            type |-> type, inner |-> inner]),
                                               base)

expandStyle(src, open, close, type, rs, base) ==
    ExpandStyleFrom(src, open, close, type, 0, <<>>, rs, base)

\* the tokens with '*' written for the bold token '**' in part_002
OpenTokenBoldTypo(v, type) ==
    IF v = "p1"
    THEN (IF type = "bold" THEN <<"u0002">> ELSE IF type = "italic" THEN <<"u0004">> ELSE <<"u0006">>)
    ELSE (IF type = "bold" THEN <<"*">> ELSE IF type = "italic" THEN <<"*">> ELSE <<"u0060">>)

\* the open and close token of each style pass, per copy
OpenToken(v, type) ==
    IF v = "p1"
    THEN (IF type = "bold" THEN <<"u0002">> ELSE IF type = "italic" THEN <<"u0004">> ELSE <<"u0006">>)
    ELSE (IF type = "bold" THEN <<"*", "*">> ELSE IF type = "italic" THEN <<"*">> ELSE <<"u0060">>)

CloseToken(v, type) ==
    IF v = "p1"
    THEN (IF type = "bold" THEN <<"u0003">> ELSE IF type = "italic" THEN <<"u0005">> ELSE <<"u0007">>)
    ELSE OpenToken(v, type)

\* buildRichTextFromMarkdown_(md) of copy v as one function: the text and the
\* runs handed to the RichTextValue builder
buildRichTextFromMarkdown_(v, a) ==
    LET m  == BulletsToGlyph(HeadingsToBold(NormalizeEol(CoerceMd(a))))
        e  == ExtractLinks(m)
        t  == IF v = "p1" THEN MarkStyles(e.text) ELSE e.text
        l  == ExpandLinksFrom(t, 0, <<>>, <<>>, 0, e.linkRuns)
        b  == expandStyle(l.text, OpenToken(v, "bold"), CloseToken(v, "bold"), "bold", l.runs, 0)
        i  == expandStyle(b.text, OpenToken(v, "italic"), CloseToken(v, "italic"), "italic",
                          b.runs, 0)
        c  == expandStyle(i.text, OpenToken(v, "code"), CloseToken(v, "code"), "code", i.runs, 0)
    IN  [final |-> c.text, runs |-> c.runs]

----------------------------------------------------------------------------
(* stripMarkdown_                                                           *)

\* s.replace(re, '$1') for the bold / italic / code expressions
RECURSIVE UnwrapStyleFrom(_, _, _)
UnwrapStyleFrom(kind, str, i) ==
    IF i >= Len(str) THEN <<>>
    ELSE LET m == StyleMatchAt(kind, str, i)
         IN  IF m = <<>>
             THEN <<CharAt(str, i)>> \o UnwrapStyleFrom(kind, str, i + 1)
             ELSE Slice(str, m[1].innerFrom, m[1].innerTo) \o UnwrapStyleFrom(kind, str, m[1].to)

\* s.replace(/^(#{1,6})\s*(.+)$/gm, '$2')
RECURSIVE UnwrapHeadingsFrom(_, _)
UnwrapHeadingsFrom(str, i) ==
    IF i >= Len(str) THEN <<>>
    ELSE LET m == HeadingMatchAt(str, i)
         IN  IF m = <<>>
             THEN <<CharAt(str, i)>> \o UnwrapHeadingsFrom(str, i + 1)
             ELSE Slice(str, m[1].textFrom, m[1].to) \o UnwrapHeadingsFrom(str, m[1].to)

\* the replacement '$1' in place of '$1 ($2)'
LinkPlainLabelOnly(label, url) == label

\* the replacement '$1 ($2)'
LinkPlain(label, url) == label \o <<" ", "(">> \o url \o <<")">>

\* s.replace(/\[([^\]]+)\]\((https?:\/\/[^\s)]+)\)/g, '$1 ($2)')
RECURSIVE UnwrapLinksFrom(_, _)
UnwrapLinksFrom(str, i) ==
    IF i >= Len(str) THEN <<>>
    ELSE LET m == LinkMatchAt(str, i)
         IN  IF m = <<>>
             THEN <<CharAt(str, i)>> \o UnwrapLinksFrom(str, i + 1)
             ELSE LinkPlain(Slice(str, m[1].labelFrom, m[1].labelTo),
                            Slice(str, m[1].urlFrom, m[1].urlTo))
                  \o UnwrapLinksFrom(str, m[1].to)

stripMarkdown_(a) ==
    IF ~a.defined \/ a.str = <<>> THEN <<>>
    ELSE LET s1 == NormalizeEol(a.str)
             s2 == UnwrapHeadingsFrom(s1, 0)
             s3 == UnwrapLinksFrom(s2, 0)
             s4 == UnwrapStyleFrom("bold", s3, 0)
             s5 == UnwrapStyleFrom("italic", s4, 0)
             s6 == UnwrapStyleFrom("code", s5, 0)
         IN  BulletsToGlyph(s6)

----------------------------------------------------------------------------
(* Inputs                                                                   *)

\* number of fragments an input is concatenated from
MaxFrags == 3

\* [a](http://x)
LinkA == <<"[", "a", "]", "(", "h", "t", "t", "p", ":", "/", "/", "x", ")">>

\* [*c*](https://y) : a link whose label holds italic delimiters
LinkStyled == <<"[", "*", "c", "*", "]", "(", "h", "t", "t", "p", "s", ":", "/", "/", "y", ")">>

\* [d](ftp://z) : a scheme other than http / https
LinkFtp == <<"[", "d", "]", "(", "f", "t", "p", ":", "/", "/", "z", ")">>

\* [e](http://w followed by a blank: whitespace in the url, no closing parenthesis
LinkOpen == <<"[", "e", "]", "(", "h", "t", "t", "p", ":", "/", "/", "w", " ">>

Fragments ==
    << <<"*", "*">>, <<"*">>, <<"u0060">>, <<"b">>, <<" ">>, <<"\n">>, <<"#">>,
       LinkA, LinkStyled, LinkFtp, LinkOpen, <<"u0000">>, <<"u0001">> >>

RECURSIVE Concat(_)
Concat(fs) == IF fs = <<>> THEN <<>> ELSE Fragments[Head(fs)] \o Concat(Tail(fs))

FragSeqs == UNION {[1 .. n -> 1 .. Len(Fragments)] : n \in 0 .. MaxFrags}

\* the examples of the documentation, and the repeated markers ****a****
ScBold == <<"*", "*", "b", "o", "l", "d">>

ScLinkBold == <<"[", "a", "]", "(", "h", "t", "t", "p", "s", ":", "/", "/", "x", ")", " ", "*", "*", "b", "*", "*">>

ScBoldCode == <<"*", "*", "B", "o", "l", "d", "*", "*", " ", "a", "n", "d", " ", "u0060", "c", "o", "d", "e", "u0060">>

ScClick == <<"[", "C", "l", "i", "c", "k", "]", "(", "h", "t", "t", "p", "s", ":", "/", "/", "x", ".", "c", "o", "m", ")">>

ScTitle == <<"#", "#", " ", "T", "i", "t", "l", "e">>

ScItem == <<"-", " ", "i", "t", "e", "m">>

ScStars == <<"*", "*", "*", "*", "a", "*", "*", "*", "*">>

Scenarios == {ScBold, ScLinkBold, ScBoldCode, ScClick, ScTitle, ScItem, ScStars}

Inputs == {Concat(fs) : fs \in FragSeqs} \cup Scenarios

----------------------------------------------------------------------------
(* The other programs of the repository are not running                     *)

\* null of JavaScript where a date or a page number is expected
Null == -1

ExportIdle ==
    /\ range = [startDate |-> 0, endDate |-> 0]
    /\ sheet = [headers |-> {}, rows |-> <<>>]
    /\ server = <<>>
    /\ page = 0
    /\ iter = 0
    /\ results = <<>>
    /\ rows = <<>>
    /\ log = <<>>

TasksIdle ==
    /\ tasks = <<>>
    /\ children = <<>>
    /\ stack = <<>>
    /\ result = <<>>

MarkdownIdle ==
    /\ variant = "p2"
    /\ arg = [defined |-> FALSE, str |-> <<>>]
    /\ md = <<>>
    /\ text = <<>>
    /\ linkRuns = <<>>
    /\ runs = <<>>
    /\ linkIdx = 0
    /\ final = <<>>
    /\ s = <<>>
    /\ pass = "none"
    /\ pos = 0
    /\ acc = <<>>

mdVars == <<variant, arg, md, text, linkRuns, runs, linkIdx, final, s, pass, pos, acc>>

----------------------------------------------------------------------------
(* State machine: one call of buildRichTextFromMarkdown_ or stripMarkdown_  *)

\* a call with an argument drawn from I, or with no argument
InitOver(I) ==
    /\ variant \in {"p1", "p2"}
    /\ arg \in {[defined |-> TRUE, str |-> i] : i \in I}
               \cup {[defined |-> FALSE, str |-> <<>>]}
    /\ pc = "start"
    /\ md = <<>>
    /\ text = <<>>
    /\ linkRuns = <<>>
    /\ runs = <<>>
    /\ linkIdx = 0
    /\ final = <<>>
    /\ thrown = FALSE
    /\ s = <<>>
    /\ pass = "none"
    /\ pos = 0
    /\ acc = <<>>
    /\ ExportIdle
    /\ TasksIdle

Init == InitOver(Inputs)

\* md = md || ''; md = md.replace(/\r\n?/g, '\n'); headings; bullets
NormalizeLines ==
    /\ pc = "start"
    /\ md' = BulletsToGlyph(HeadingsToBold(NormalizeEol(CoerceMd(arg))))
    /\ pc' = "normalized"
    /\ UNCHANGED <<pass, pos, acc, variant, arg, text, linkRuns, runs, linkIdx, final, thrown, s>>
    /\ UNCHANGED <<exportVars, taskVars>>

\* let text = md.replace(link expression, ...) filling linkRuns
ExtractLinksStep ==
    /\ pc = "normalized"
    /\ LET r == ExtractLinks(md)
       IN  /\ text' = r.text
           /\ linkRuns' = r.linkRuns
    /\ pc' = "extracted"
    /\ UNCHANGED <<pass, pos, acc, variant, arg, md, runs, linkIdx, final, thrown, s>>
    /\ UNCHANGED <<exportVars, taskVars>>

\* part_001 only: bold / italic / code spans to marker pairs
MarkStylesStep ==
    /\ pc = "extracted"
    /\ variant = "p1"
    /\ text' = MarkStyles(text)
    /\ pc' = "marked"
    /\ UNCHANGED <<pass, pos, acc, variant, arg, md, linkRuns, runs, linkIdx, final, thrown, s>>
    /\ UNCHANGED <<exportVars, taskVars>>

\* the link expansion loop and text = tmp
ExpandLinks ==
    /\ \/ pc = "extracted" /\ variant = "p2"
       \/ pc = "marked"
    /\ LET r == ExpandLinksFrom(text, 0, <<>>, runs, linkIdx, linkRuns)
       IN  /\ text' = (IF r.thrown THEN text ELSE r.text)
           /\ runs' = r.runs
           /\ linkIdx' = r.linkIdx
           /\ thrown' = r.thrown
           /\ pc' = (IF r.thrown THEN "thrown" ELSE "linked")
    /\ UNCHANGED <<pass, pos, acc, variant, arg, md, linkRuns, final, s>>
    /\ UNCHANGED <<exportVars, taskVars>>

ExpandPass(from, type) ==
    /\ pc = from
    /\ LET r == expandStyle(text, OpenToken(variant, type), CloseToken(variant, type),
                            type, runs, Len(final))
       IN  /\ text' = r.text
           /\ runs' = r.runs
    /\ pc' = type
    /\ UNCHANGED <<pass, pos, acc, variant, arg, md, linkRuns, linkIdx, final, thrown, s>>
    /\ UNCHANGED <<exportVars, taskVars>>

ExpandBold == ExpandPass("linked", "bold")

ExpandItalic == ExpandPass("bold", "italic")

ExpandCode == ExpandPass("italic", "code")

\* part_001: final += text;  part_002: const final = text
Assemble ==
    /\ pc = "code"
    /\ final' = final \o text
    /\ pc' = "done"
    /\ UNCHANGED <<pass, pos, acc, variant, arg, md, text, linkRuns, runs, linkIdx, thrown, s>>
    /\ UNCHANGED <<exportVars, taskVars>>

\* one call of stripMarkdown_ on the same argument
StripMarkdown ==
    /\ pc = "start"
    /\ s' = stripMarkdown_(arg)
    /\ pc' = "stripped"
    /\ UNCHANGED <<pass, pos, acc, variant, arg, md, text, linkRuns, runs, linkIdx, final, thrown>>
    /\ UNCHANGED <<exportVars, taskVars>>

\* stripMarkdown_ called on its own result
StripAgain ==
    /\ pc = "stripped"
    /\ s' = stripMarkdown_([defined |-> TRUE, str |-> s])
    /\ pc' = "restripped"
    /\ UNCHANGED <<pass, pos, acc, variant, arg, md, text, linkRuns, runs, linkIdx, final, thrown>>
    /\ UNCHANGED <<exportVars, taskVars>>

Next ==
    \/ NormalizeLines
    \/ ExtractLinksStep
    \/ MarkStylesStep
    \/ ExpandLinks
    \/ ExpandBold
    \/ ExpandItalic
    \/ ExpandCode
    \/ Assemble
    \/ StripMarkdown
    \/ StripAgain

Spec == Init /\ [][Next]_vars

----------------------------------------------------------------------------
(* Inputs made of lines: line terminators, heading and bullet prefixes      *)

\* number of fragments a line input is concatenated from
MaxLineFrags == 4

LineFragments == << <<"\r">>, <<"\n">>, <<"#">>, <<"-">>, <<" ">>, <<"a">> >>

RECURSIVE ConcatLine(_)
ConcatLine(fs) == IF fs = <<>> THEN <<>> ELSE LineFragments[Head(fs)] \o ConcatLine(Tail(fs))

LineFragSeqs == UNION {[1 .. n -> 1 .. Len(LineFragments)] : n \in 0 .. MaxLineFrags}

\* k times '#'
Hashes(k) == [i \in 1 .. k |-> "#"]

\* heading texts with what trim() leaves of them
HeadingTexts ==
    { <<<<"a">>, <<"a">>>>,
      <<<<"T", "i", "t", "l", "e">>, <<"T", "i", "t", "l", "e">>>>,
      <<<<"a", " ", "b", " ">>, <<"a", " ", "b">>>> }

Blanks == { <<>>, <<" ">>, <<" ", " ">> }

\* one heading line: 1 to 6 '#', optional blanks, a text
HeadingInputs ==
    {Hashes(k) \o sp \o tt[1] : k \in 1 .. 6, sp \in Blanks, tt \in HeadingTexts}

\* the rest of a bullet line, with the plain text and the runs (offsets in
\* that plain text) the style passes make of it
BulletRests ==
    { [rest |-> <<"i", "t", "e", "m">>, plain |-> <<"i", "t", "e", "m">>, runs |-> <<>>],
      [rest |-> <<>>, plain |-> <<>>, runs |-> <<>>],
      [rest |-> <<"*", "*", "b", "*", "*">>, plain |-> <<"b">>,
       runs |-> <<[type |-> "bold", start |-> 0, end |-> 1]>>],
      [rest |-> <<"a", " ", "u0060", "c", "u0060">>, plain |-> <<"a", " ", "c">>,
       runs |-> <<[type |-> "code", start |-> 2, end |-> 3]>>] }

\* one bullet line: optional blanks, '-' or '*', one or two blanks, a rest
BulletInputs ==
    {lead \o <<mk>> \o gap \o br.rest :
        lead \in Blanks, mk \in {"-", "*"}, gap \in Blanks \ {<<>>}, br \in BulletRests}

LineInputs == {ConcatLine(fs) : fs \in LineFragSeqs} \cup HeadingInputs \cup BulletInputs

InitLines == InitOver(LineInputs)

SpecLines == InitLines /\ [][Next]_vars

----------------------------------------------------------------------------
(* The passes iteration by iteration: one action per way through the body   *)
(* of the link expansion loop and of the loop of expandStyle                *)

\* number of fragments an input of the scans is concatenated from
MaxScanFrags == 3

ScanFragments ==
    << <<"*", "*">>, <<"*">>, <<"u0060">>, <<"a">>, <<"u0000">>, <<"u0001">>,
       <<"u0002">>, <<"u0003">>, LinkA >>

RECURSIVE ConcatScan(_)
ConcatScan(fs) == IF fs = <<>> THEN <<>> ELSE ScanFragments[Head(fs)] \o ConcatScan(Tail(fs))

ScanFragSeqs == UNION {[1 .. n -> 1 .. Len(ScanFragments)] : n \in 0 .. MaxScanFrags}

ScanInputs == {ConcatScan(fs) : fs \in ScanFragSeqs}

InitScan == InitOver(ScanInputs)

\* let tmp = ''; let linkIdx = 0; for (let i = 0; ...
LinkLoopEnter ==
    /\ \/ pc = "extracted" /\ variant = "p2"
       \/ pc = "marked"
    /\ pass' = "link"
    /\ acc' = <<>>
    /\ linkIdx' = 0
    /\ pos' = 0
    /\ pc' = "linkloop"
    /\ UNCHANGED <<variant, arg, md, text, linkRuns, runs, final, thrown, s>>
    /\ UNCHANGED <<exportVars, taskVars>>

\* else branch: tmp += text[i++]
LinkCopyChar ==
    /\ pc = "linkloop"
    /\ pos < Len(text)
    /\ CharAt(text, pos) # "u0000"
    /\ acc' = Append(acc, CharAt(text, pos))
    /\ pos' = pos + 1
    /\ UNCHANGED <<variant, arg, pc, md, text, linkRuns, runs, linkIdx, final, thrown, s, pass>>
    /\ UNCHANGED <<exportVars, taskVars>>

\* if (close === -1) { tmp += text[i++]; continue; }
LinkUnclosed ==
    /\ pc = "linkloop"
    /\ pos < Len(text)
    /\ CharAt(text, pos) = "u0000"
    /\ IndexOf(text, <<"u0001">>, pos + 1) = -1
    /\ acc' = Append(acc, CharAt(text, pos))
    /\ pos' = pos + 1
    /\ UNCHANGED <<variant, arg, pc, md, text, linkRuns, runs, linkIdx, final, thrown, s, pass>>
    /\ UNCHANGED <<exportVars, taskVars>>

\* a sentinel pair: label to tmp, a Link run when the queue entry has a url,
\* linkIdx++, i = close + 1
LinkResolve ==
    /\ pc = "linkloop"
    /\ pos < Len(text)
    /\ CharAt(text, pos) = "u0000"
    /\ LET close == IndexOf(text, <<"u0001">>, pos + 1)
           label == SentinelLabel(text, pos, close)
           url   == UrlOfEntry(linkRuns, linkIdx)
       IN  /\ close # -1
           /\ IF url.thrown
              THEN /\ thrown' = TRUE
                   /\ pc' = "thrown"
                   /\ UNCHANGED <<acc, runs, linkIdx, pos>>
              ELSE /\ acc' = acc \o label
                   /\ runs' = (IF url.truthy
                               THEN PushRun(runs, [start |-> Len(acc), end |-> Len(acc \o label),
                                                   type |-> "link", url |-> url.url,
                                                   inner |-> label])
                               ELSE runs)
                   /\ linkIdx' = NextLinkIdx(linkIdx)
                   /\ pos' = close + 1
                   /\ UNCHANGED <<pc, thrown>>
    /\ UNCHANGED <<variant, arg, md, text, linkRuns, final, s, pass>>
    /\ UNCHANGED <<exportVars, taskVars>>

\* i < text.length fails; text = tmp
LinkLoopExit ==
    /\ pc = "linkloop"
    /\ pos >= Len(text)
    /\ text' = acc
    /\ pc' = "linked"
    /\ UNCHANGED <<variant, arg, md, linkRuns, runs, linkIdx, final, thrown, s, pass, pos, acc>>
    /\ UNCHANGED <<exportVars, taskVars>>

\* a call expandStyle(text, open, close, type): let out = ''; for (let i = 0; ...
StyleEnter ==
    /\ pc \in {"linked", "bold", "italic"}
    /\ pass' = (IF pc = "linked" THEN "bold" ELSE IF pc = "bold" THEN "italic" ELSE "code")
    /\ acc' = <<>>
    /\ pos' = 0
    /\ pc' = "styleloop"
    /\ UNCHANGED <<variant, arg, md, text, linkRuns, runs, linkIdx, final, thrown, s>>
    /\ UNCHANGED <<exportVars, taskVars>>

\* if (o === -1) { out += src.slice(i); break; }
StyleNoOpen ==
    /\ pc = "styleloop"
    /\ pos < Len(text)
    /\ IndexOf(text, OpenToken(variant, pass), pos) = -1
    /\ acc' = acc \o SliceFrom(text, pos)
    /\ pc' = "stylebreak"
    /\ UNCHANGED <<variant, arg, md, text, linkRuns, runs, linkIdx, final, thrown, s, pass, pos>>
    /\ UNCHANGED <<exportVars, taskVars>>

\* if (c === -1) { out += src.slice(o, o + open.length); i = o + open.length; continue; }
StyleUnclosed ==
    /\ pc = "styleloop"
    /\ pos < Len(text)
    /\ LET open == OpenToken(variant, pass)
           o    == IndexOf(text, open, pos)
       IN  /\ o # -1
           /\ IndexOf(text, CloseToken(variant, pass), o + Len(open)) = -1
           /\ acc' = acc \o Slice(text, pos, o) \o LiteralOpen(text, o, open)
           /\ pos' = AfterOpen(o, open)
    /\ UNCHANGED <<variant, arg, pc, md, text, linkRuns, runs, linkIdx, final, thrown, s, pass>>
    /\ UNCHANGED <<exportVars, taskVars>>

\* an open token with a close token: inner to out, a run, i = c + close.length
StyleMatched ==
    /\ pc = "styleloop"
    /\ pos < Len(text)
    /\ LET open  == OpenToken(variant, pass)
           close == CloseToken(variant, pass)
           o     == IndexOf(text, open, pos)
           c     == IndexOf(text, close, o + Len(open))
           out1  == acc \o Slice(text, pos, o)
           inner == Slice(text, o + Len(open), c)
       IN  /\ o # -1
           /\ c # -1
           /\ acc' = out1 \o inner
           /\ runs' = PushRun(runs, [start |-> Len(final) + Len(out1),
                                     end |-> Len(final) + Len(out1 \o inner),
                                     type |-> pass, inner |-> inner])
           /\ pos' = c + Len(close)
    /\ UNCHANGED <<variant, arg, pc, md, text, linkRuns, linkIdx, final, thrown, s, pass>>
    /\ UNCHANGED <<exportVars, taskVars>>

\* return out; text = expandStyle(...)
StyleReturn ==
    /\ \/ pc = "stylebreak"
       \/ pc = "styleloop" /\ pos >= Len(text)
    /\ text' = acc
    /\ pc' = pass
    /\ UNCHANGED <<variant, arg, md, linkRuns, runs, linkIdx, final, thrown, s, pass, pos, acc>>
    /\ UNCHANGED <<exportVars, taskVars>>

NextScan ==
    \/ NormalizeLines
    \/ ExtractLinksStep
    \/ MarkStylesStep
    \/ LinkLoopEnter
    \/ LinkCopyChar
    \/ LinkUnclosed
    \/ LinkResolve
    \/ LinkLoopExit
    \/ StyleEnter
    \/ StyleNoOpen
    \/ StyleUnclosed
    \/ StyleMatched
    \/ StyleReturn
    \/ Assemble

SpecScan == InitScan /\ [][NextScan]_vars

\* one iteration of a loop, or leaving it
LoopStep ==
    \/ LinkCopyChar
    \/ LinkUnclosed
    \/ LinkResolve
    \/ LinkLoopExit
    \/ StyleNoOpen
    \/ StyleUnclosed
    \/ StyleMatched
    \/ StyleReturn

\* a loop that has been entered keeps running: its statements are executed
\* one after the other by the single thread of the script
SpecScanFair == SpecScan /\ WF_vars(LoopStep)

----------------------------------------------------------------------------
(* TasCVE export: src/unnamed/part_000                                      *)
(*                                                                          *)
(* A date is a day number.  A cell of the Pub Date column is [kind, t] with *)
(* kind "empty", "text" (a string that is no date), "datetext" (a string    *)
(* that new Date() parses) or "date" (a Date).  A row of the tab carries    *)
(* row0, the row number it had when the call started (0 for a row written   *)
(* by the call).  rows[1] of the tab is the header row.                     *)

MAX_PAGES == 15

required == {"CVE ID", "RATING", "COMMENTS", "Link", "Pub Date", "RR Date"}

\* the filter of ensureHeadersExist_ finding every header present
NoneMissing(headers) == {}

\* const missing = required.filter(h => !col[h])
Missing(headers) == required \ headers

\* coerceDate_(v)
coerceDate_(v) == IF v.kind \in {"date", "datetext"} THEN v.t ELSE Null

\* d && d >= range.startDate && d <= range.endDate
InWindow(d, rg) == d # Null /\ d >= rg.startDate /\ d <= rg.endDate

\* values.forEach((v, i) => { ... rows.push(i + 2) }) from index i of values
\* (values[1] is the cell of row 2)
RECURSIVE WindowRowsFrom(_, _, _)
WindowRowsFrom(values, i, rg) ==
    IF i > Len(values) THEN <<>>
    ELSE (IF InWindow(coerceDate_(values[i]), rg) THEN <<i + 1>> ELSE <<>>)
         \o WindowRowsFrom(values, i + 1, rg)

\* k-th smallest element of a set of numbers
NthOf(K, k) == CHOOSE j \in K : Cardinality({x \in K : x < j}) = k - 1

\* rows.sort((a, b) => a - b) on pairwise different numbers
SortAsc(ns) ==
    LET K == {ns[k] : k \in 1 .. Len(ns)}
    IN  [k \in 1 .. Cardinality(K) |-> NthOf(K, k)]

\* the loop of lines 328-336 from index i, and the push of line 337
RECURSIVE BlocksFrom(_, _, _, _)
BlocksFrom(ns, i, start, prev) ==
    IF i > Len(ns) THEN <<[start |-> start, count |-> prev - start + 1]>>
    ELSE IF ns[i] = prev + 1 THEN BlocksFrom(ns, i + 1, start, ns[i])
    ELSE <<[start |-> start, count |-> prev - start + 1]>> \o BlocksFrom(ns, i + 1, ns[i], ns[i])

Blocks(ns) == BlocksFrom(ns, 2, ns[1], ns[1])

\* sheet.deleteRows(start, count) on the rows rs of the tab
DeleteRows(rs, start, count) ==
    LET K == {j \in 1 .. Len(rs) : j < start \/ j >= start + count}
    IN  [k \in 1 .. Cardinality(K) |-> rs[NthOf(K, k)]]

RECURSIVE DeleteBlocksFrom(_, _, _)
DeleteBlocksFrom(rs, blocks, i) ==
    IF i < 1 THEN rs
    ELSE DeleteBlocksFrom(DeleteRows(rs, blocks[i].start, blocks[i].count), blocks, i - 1)

RECURSIVE DeleteBlocksUpFrom(_, _, _)
DeleteBlocksUpFrom(rs, blocks, i) ==
    IF i > Len(blocks) THEN rs
    ELSE DeleteBlocksUpFrom(DeleteRows(rs, blocks[i].start, blocks[i].count), blocks, i + 1)

\* the blocks deleted from the top down: for (let i = 0; i < blocks.length; i++)
DeleteBlocksTopDown(rs, blocks) == DeleteBlocksUpFrom(rs, blocks, 1)

\* for (let i = blocks.length - 1; i >= 0; i--) sheet.deleteRows(...)
DeleteBlocks(rs, blocks) == DeleteBlocksFrom(rs, blocks, Len(blocks))

\* the row numbers clearTasCVERowsInRange_ collects (lines 312-322)
WindowRows(rs, rg) ==
    SortAsc(WindowRowsFrom([k \in 1 .. (Len(rs) - 1) |-> rs[k + 1].pub], 1, rg))

\* clearTasCVERowsInRange_(sheet, range): the rows of the tab afterwards
clearTasCVERowsInRange_(rs, rg) ==
    IF Len(rs) < 2 THEN rs
    ELSE IF WindowRows(rs, rg) = <<>> THEN rs
    ELSE DeleteBlocks(rs, Blocks(WindowRows(rs, rg)))

\* the number of deleteRows calls it makes
ClearCalls(rs, rg) ==
    IF Len(rs) < 2 \/ WindowRows(rs, rg) = <<>> THEN 0 ELSE Len(Blocks(WindowRows(rs, rg)))

\* parseBroadcomDate_(s): the day, or null when s is absent or not of the
\* form "d Month yyyy"
parseBroadcomDate_(p) == IF p.ok THEN p.t ELSE Null

\* oldestOnPage after the loop over the page
OldestOnPage(list) ==
    LET D == {parseBroadcomDate_(list[k].published) : k \in 1 .. Len(list)} \ {Null}
    IN  IF D = {} THEN Null ELSE Min(D)

\* the loop over the page without its window test
KeepAll(list, rg) ==
    SelectSeq(list, LAMBDA item : parseBroadcomDate_(item.published) # Null)

\* the items of a page that results.push keeps
KeepWindow(list, rg) ==
    SelectSeq(list, LAMBDA item : InWindow(parseBroadcomDate_(item.published), rg))

\* the answer of the endpoint to a request for page p
Response(srv, p) == srv[p + 1]

\* a.localeCompare(b) < 0 on the ids of the model
CharRank(c) == IF c = "A" THEN 1 ELSE IF c = "B" THEN 2 ELSE 0

RECURSIVE LexLess(_, _)
LexLess(a, b) ==
    IF b = <<>> THEN FALSE
    ELSE IF a = <<>> THEN TRUE
    ELSE IF CharRank(Head(a)) # CharRank(Head(b)) THEN CharRank(Head(a)) < CharRank(Head(b))
    ELSE LexLess(Tail(a), Tail(b))

\* the comparator of rows.sort puts x in front of y
RowBefore(x, y) ==
    x.pub > y.pub \/ (x.pub = y.pub /\ LexLess(x.advisoryId, y.advisoryId))

\* x inserted behind every row that the comparator does not put behind x
RECURSIVE InsertRow(_, _)
InsertRow(x, sorted) ==
    IF sorted = <<>> THEN <<x>>
    ELSE IF RowBefore(x, Head(sorted)) THEN <<x>> \o sorted
    ELSE <<Head(sorted)>> \o InsertRow(x, Tail(sorted))

\* rows.sort((x, y) => y.pub - x.pub || x.advisoryId.localeCompare(y.advisoryId)),
\* a stable sort
RECURSIVE SortRows(_)
SortRows(rs) ==
    IF rs = <<>> THEN <<>>
    ELSE InsertRow(rs[Len(rs)], SortRows(SubSeq(rs, 1, Len(rs) - 1)))

\* the test of the seen set always failing
SeenHasNever(seen, key) == FALSE

\* seen.has(key)
SeenHas(seen, key) == key \in seen

\* advisories.forEach(a => ...) from index i: the rows pushed
RECURSIVE RowsFrom(_, _, _, _)
RowsFrom(advisories, i, rg, seen) ==
    IF i > Len(advisories) THEN <<>>
    ELSE LET a          == advisories[i]
             pub        == parseBroadcomDate_(a.published)
             advisoryId == Trim(a.notificationId.str)
             severity   == Trim(a.severity)
             link       == Trim(a.notificationUrl)
             key        == <<advisoryId, pub, link>>
         IN  IF \/ pub = Null
                \/ pub < rg.startDate \/ pub > rg.endDate
                \/ a.notificationId.null
                \/ advisoryId = <<>> \/ link = <<>>
                \/ SeenHas(seen, key)
             THEN RowsFrom(advisories, i + 1, rg, seen)
             ELSE <<[advisoryId |-> advisoryId, advisoryUrl |-> link,
                     severity |-> severity, pub |-> pub]>>
                  \o RowsFrom(advisories, i + 1, rg, seen \cup {key})

\* advisoriesToRows_(advisories, range)
advisoriesToRows_(advisories, rg) == SortRows(RowsFrom(advisories, 1, rg, {}))

\* writeRows_: the rows appended behind the last row of the tab
WrittenRows(rs) == [k \in 1 .. Len(rs) |-> [row0 |-> 0, pub |-> [kind |-> "date", t |-> rs[k].pub]]]

(* Inputs of the export *)

\* the last day of the model's calendar
MaxDate == 2

\* number of data rows of the tab
MaxSheetRows == 3

Ranges == {[startDate |-> a, endDate |-> b] : a \in 0 .. MaxDate, b \in 0 .. MaxDate}

Cells ==
    {[kind |-> "empty", t |-> 0], [kind |-> "text", t |-> 0], [kind |-> "datetext", t |-> 1]}
    \cup {[kind |-> "date", t |-> d] : d \in 0 .. MaxDate}

HeaderRow == [row0 |-> 1, pub |-> [kind |-> "text", t |-> 0]]

\* the tabs with n data rows
SheetRowsOf(n) ==
    {<<HeaderRow>> \o [k \in 1 .. n |-> [row0 |-> k + 1, pub |-> c[k]]] : c \in [1 .. n -> Cells]}

HeaderSets == {required, required \ {"Pub Date"}, required \ {"RR Date", "Link"}}

Day(d) == [ok |-> TRUE, t |-> d]

NoDay == [ok |-> FALSE, t |-> 0]

Id(str) == [null |-> FALSE, str |-> str]

NoId == [null |-> TRUE, str |-> <<>>]

Advisory(id, published, url, sev) ==
    [notificationId |-> id, published |-> published, notificationUrl |-> url, severity |-> sev]

ItA1 == Advisory(Id(<<"A">>), Day(1), <<"u">>, <<"H">>)

\* the same key as ItA1 once trimmed, another severity
ItA1b == Advisory(Id(<<" ", "A">>), Day(1), <<"u", " ">>, <<"L">>)

ItA2 == Advisory(Id(<<"A">>), Day(2), <<"u">>, <<"H">>)

ItA0 == Advisory(Id(<<"A">>), Day(0), <<"u">>, <<"H">>)

ItB1 == Advisory(Id(<<"B">>), Day(1), <<"u">>, <<"L">>)

ItAv == Advisory(Id(<<"A">>), Day(1), <<"v">>, <<"H">>)

ItNoId == Advisory(NoId, Day(1), <<"u">>, <<"H">>)

ItBlankId == Advisory(Id(<<" ">>), Day(1), <<"u">>, <<"H">>)

ItNoLink == Advisory(Id(<<"A">>), Day(1), <<>>, <<"H">>)

ItBadDate == Advisory(Id(<<"A">>), NoDay, <<"u">>, <<"H">>)

\* the lists a page of the endpoint can hold
PageLists == { <<>>, <<ItA1>>, <<ItA2, ItA1, ItA0>>, <<ItBadDate, ItB1>> }

\* number of pages the endpoint has
NumPages == 2

\* the answers to a request: an HTTP error, a body that is no JSON, or a
\* page with its list and its nextPage
Answers ==
    { [code |-> 500, json |-> FALSE, list |-> <<>>, nextPage |-> Null],
      [code |-> 200, json |-> FALSE, list |-> <<>>, nextPage |-> Null] }
    \cup {[code |-> 200, json |-> TRUE, list |-> l, nextPage |-> n] :
            l \in PageLists, n \in {Null} \cup (0 .. (NumPages - 1))}

Servers == [1 .. NumPages -> Answers]

\* an endpoint that fails, one whose body is no JSON, one with a single
\* page, and one that names its first page as the next page for ever
FewServers ==
    { [k \in 1 .. NumPages |-> [code |-> 500, json |-> FALSE, list |-> <<>>, nextPage |-> Null]],
      [k \in 1 .. NumPages |-> [code |-> 200, json |-> FALSE, list |-> <<>>, nextPage |-> Null]],
      [k \in 1 .. NumPages |-> [code |-> 200, json |-> TRUE, list |-> <<ItA2, ItA1>>,
                                nextPage |-> Null]],
      [k \in 1 .. NumPages |-> [code |-> 200, json |-> TRUE, list |-> <<ItA1>>, nextPage |-> 0]] }

\* windows of one day, of the last two days and of the whole calendar
FewRanges ==
    { [startDate |-> 1, endDate |-> 1], [startDate |-> 1, endDate |-> MaxDate],
      [startDate |-> 0, endDate |-> MaxDate] }

FewSheets ==
    { <<HeaderRow>>,
      <<HeaderRow, [row0 |-> 2, pub |-> [kind |-> "date", t |-> 1]],
                   [row0 |-> 3, pub |-> [kind |-> "date", t |-> 0]]>> }

\* a call of exportTasCVE with a date window, a tab and an endpoint
InitExportOver(RS, HS, SH, SV) ==
    /\ pc = "validate"
    /\ thrown = FALSE
    /\ range \in RS
    /\ sheet \in {[headers |-> h, rows |-> r] : h \in HS, r \in SH}
    /\ server \in SV
    /\ page = 0
    /\ iter = 0
    /\ results = <<>>
    /\ rows = <<>>
    /\ log = <<>>
    /\ MarkdownIdle
    /\ TasksIdle

\* ensureHeadersExist_(sheet)
EnsureHeaders ==
    /\ pc = "validate"
    /\ IF Missing(sheet.headers) # {}
       THEN thrown' = TRUE /\ pc' = "headersMissing"
       ELSE thrown' = thrown /\ pc' = "clear"
    /\ UNCHANGED <<exportVars, mdVars, taskVars>>

\* clearTasCVERowsInRange_(sheet, range), then the locals of
\* fetchAdvisoriesWindowed_ are set up
ClearRows ==
    /\ pc = "clear"
    /\ sheet' = [sheet EXCEPT !.rows = clearTasCVERowsInRange_(sheet.rows, range)]
    /\ log' = log \o [k \in 1 .. ClearCalls(sheet.rows, range) |-> "deleteRows"]
    /\ results' = <<>>
    /\ page' = 0
    /\ iter' = 0
    /\ pc' = "fetch"
    /\ UNCHANGED <<range, server, rows, thrown, mdVars, taskVars>>

\* one iteration of the loop of fetchAdvisoriesWindowed_ with a 2xx answer
\* that is JSON
FetchPage ==
    /\ pc = "fetch"
    /\ iter < MAX_PAGES
    /\ LET r == Response(server, page)
           oldestOnPage == OldestOnPage(r.list)
       IN  /\ r.code >= 200 /\ r.code < 300
           /\ r.json
           /\ results' = results \o KeepWindow(r.list, range)
           /\ IF oldestOnPage # Null /\ oldestOnPage < range.startDate
              THEN pc' = "fetched" /\ UNCHANGED <<page, iter>>
              ELSE IF r.nextPage = Null
                   THEN pc' = "fetched" /\ UNCHANGED <<page, iter>>
                   ELSE pc' = "fetch" /\ page' = r.nextPage /\ iter' = iter + 1
    /\ log' = Append(log, "fetch")
    /\ UNCHANGED <<range, sheet, server, rows, thrown, mdVars, taskVars>>

\* if (code < 200 || code >= 300) throw new Error(...)
FetchHttpError ==
    /\ pc = "fetch"
    /\ iter < MAX_PAGES
    /\ LET r == Response(server, page)
       IN  r.code < 200 \/ r.code >= 300
    /\ log' = Append(log, "fetch")
    /\ thrown' = TRUE
    /\ pc' = "httpError"
    /\ UNCHANGED <<range, sheet, server, page, iter, results, rows, mdVars, taskVars>>

\* JSON.parse(body) throws
FetchBadJson ==
    /\ pc = "fetch"
    /\ iter < MAX_PAGES
    /\ LET r == Response(server, page)
       IN  r.code >= 200 /\ r.code < 300 /\ ~r.json
    /\ log' = Append(log, "fetch")
    /\ thrown' = TRUE
    /\ pc' = "badJson"
    /\ UNCHANGED <<range, sheet, server, page, iter, results, rows, mdVars, taskVars>>

\* i < TAS_CVE_CONFIG.MAX_PAGES fails
FetchLoopEnd ==
    /\ pc = "fetch"
    /\ iter >= MAX_PAGES
    /\ pc' = "fetched"
    /\ UNCHANGED <<exportVars, thrown, mdVars, taskVars>>

\* const rows = advisoriesToRows_(advisories, range)
Transform ==
    /\ pc = "fetched"
    /\ rows' = advisoriesToRows_(results, range)
    /\ pc' = "transformed"
    /\ UNCHANGED <<range, sheet, server, page, iter, results, log, thrown, mdVars, taskVars>>

\* writeRows_(sheet, rows)
WriteRows ==
    /\ pc = "transformed"
    /\ IF rows = <<>>
       THEN UNCHANGED <<sheet, log>>
       ELSE /\ sheet' = [sheet EXCEPT !.rows = sheet.rows \o WrittenRows(rows)]
            /\ log' = Append(log, "setValues")
    /\ pc' = "exported"
    /\ UNCHANGED <<range, server, page, iter, results, rows, thrown, mdVars, taskVars>>

NextExport ==
    \/ EnsureHeaders
    \/ ClearRows
    \/ FetchPage
    \/ FetchHttpError
    \/ FetchBadJson
    \/ FetchLoopEnd
    \/ Transform
    \/ WriteRows

\* exportTasCVE on every tab of up to MaxSheetRows data rows
InitClear ==
    InitExportOver(Ranges, {required, required \ {"RR Date"}},
                   UNION {SheetRowsOf(n) : n \in 0 .. MaxSheetRows}, FewServers)

SpecClear == InitClear /\ [][NextExport]_vars

\* exportTasCVE against every endpoint of NumPages pages
InitExport == InitExportOver(FewRanges, HeaderSets, FewSheets, Servers)

SpecExport == InitExport /\ [][NextExport]_vars

\* the statements of fetchAdvisoriesWindowed_ are executed one after the other
SpecExportFair ==
    SpecExport /\ WF_vars(FetchPage \/ FetchHttpError \/ FetchBadJson \/ FetchLoopEnd)

\* number of advisories handed to advisoriesToRows_
MaxAdvisories == 3

AdvisoryItems == {ItA1, ItA1b, ItA2, ItA0, ItB1, ItAv, ItNoId, ItBlankId, ItNoLink, ItBadDate}

\* advisoriesToRows_ called on any list of advisories
InitRows ==
    /\ pc = "fetched"
    /\ thrown = FALSE
    /\ range \in Ranges
    /\ sheet = [headers |-> required, rows |-> <<HeaderRow>>]
    /\ server = <<>>
    /\ page = 0
    /\ iter = 0
    /\ results \in UNION {[1 .. n -> AdvisoryItems] : n \in 0 .. MaxAdvisories}
    /\ rows = <<>>
    /\ log = <<>>
    /\ MarkdownIdle
    /\ TasksIdle

NextRows == Transform \/ WriteRows

SpecRows == InitRows /\ [][NextRows]_vars

----------------------------------------------------------------------------
(* orderTasksHierarchically_: src/unnamed/part_001 148-173 and             *)
(* src/unnamed/part_002 172-198 (the two copies are the same code)          *)
(*                                                                          *)
(* A task is [id, parent, position].  Ids are the numbers 1, 2, ...; parent *)
(* NoParent is a task without the parent field; position 0 is a task        *)
(* without the position field, which the comparator reads as ''.            *)

MaxTasks == 3

NoParent == 0

\* an id that no task of the list has
MissingId == MaxTasks + 1

Positions == 0 .. 1

\* the lists of tasks with unique ids: the k-th task is given the id k
TaskLists ==
    UNION {{[k \in 1 .. n |-> [id |-> k, parent |-> p[k], position |-> q[k]]] :
                p \in [1 .. n -> {NoParent} \cup (1 .. n) \cup {MissingId}],
                q \in [1 .. n -> Positions]} : n \in 0 .. MaxTasks}

\* (a.position || '').localeCompare(b.position || '') <= 0
PositionNotAfter(a, b) == a.position <= b.position

\* the place of t in a list sorted by position, behind the tasks that compare
\* equal to it (Array.prototype.sort is stable)
RECURSIVE InsertTask(_, _)
InsertTask(sorted, t) ==
    IF sorted = <<>> THEN <<t>>
    ELSE IF PositionNotAfter(Head(sorted), t)
         THEN <<Head(sorted)>> \o InsertTask(Tail(sorted), t)
         ELSE <<t>> \o sorted

RECURSIVE SortByPosition(_)
SortByPosition(ts) ==
    IF ts = <<>> THEN <<>>
    ELSE InsertTask(SortByPosition(SubSeq(ts, 1, Len(ts) - 1)), ts[Len(ts)])

\* children.get(id) || []
Kids(ch, id) == IF id \in DOMAIN ch THEN ch[id] ELSE <<>>

\* the level dfs passes to the children of a task
ChildLevelSame(level) == level

ChildLevel(level) == level + 1

\* the calls dfs(k, level + 1) that kids.forEach makes, in order
CallsFor(kids, level) == [k \in 1 .. Len(kids) |-> [task |-> kids[k], level |-> level]]

InitTasks ==
    /\ pc = "index"
    /\ thrown = FALSE
    /\ tasks \in TaskLists
    /\ children = <<>>
    /\ stack = <<>>
    /\ result = <<>>
    /\ MarkdownIdle
    /\ ExportIdle

\* tasks.forEach(t => { byId.set(t.id, t); if (t.parent) ... }): every task
\* with a parent is appended to the list kept under its parent's id
IndexTasks ==
    /\ pc = "index"
    /\ children' = [p \in {tasks[k].parent : k \in 1 .. Len(tasks)} \ {NoParent} |->
                        SelectSeq(tasks, LAMBDA t : t.parent = p)]
    /\ pc' = "sort"
    /\ UNCHANGED <<tasks, stack, result, thrown, mdVars, exportVars>>

\* children.forEach(arr => arr.sort(...))
SortChildren ==
    /\ pc = "sort"
    /\ children' = [p \in DOMAIN children |-> SortByPosition(children[p])]
    /\ pc' = "roots"
    /\ UNCHANGED <<tasks, stack, result, thrown, mdVars, exportVars>>

\* roots = tasks.filter(t => !t.parent).sort(...); roots.forEach(r => dfs(r, 0))
\* has the calls dfs(r, 0) to make, in the order of roots
StartDfs ==
    /\ pc = "roots"
    /\ stack' = CallsFor(SortByPosition(SelectSeq(tasks, LAMBDA t : t.parent = NoParent)), 0)
    /\ pc' = "dfs"
    /\ UNCHANGED <<tasks, children, result, thrown, mdVars, exportVars>>

\* one call of dfs(task, level): the push onto result; the calls for its kids
\* come before the calls that were already pending
DfsVisit ==
    /\ pc = "dfs"
    /\ stack # <<>>
    /\ result' = Append(result, Head(stack))
    /\ stack' = CallsFor(Kids(children, Head(stack).task.id), ChildLevel(Head(stack).level))
                    \o Tail(stack)
    /\ UNCHANGED <<pc, tasks, children, thrown, mdVars, exportVars>>

\* return result
ReturnResult ==
    /\ pc = "dfs"
    /\ stack = <<>>
    /\ pc' = "ordered"
    /\ UNCHANGED <<tasks, children, stack, result, thrown, mdVars, exportVars>>

NextTasks ==
    \/ IndexTasks
    \/ SortChildren
    \/ StartDfs
    \/ DfsVisit
    \/ ReturnResult

SpecTasks == InitTasks /\ [][NextTasks]_vars

\* a call that has started goes on running
SpecTasksFair == SpecTasks /\ WF_vars(NextTasks)

----------------------------------------------------------------------------
(* Properties                                                               *)

\* number of positions at which tok occurs in str
CountOcc(str, tok) == Cardinality({i \in 0 .. (Len(str) - Len(tok)) : StartsWithAt(str, tok, i)})

HasChar(str, c) == \E i \in 1 .. Len(str) : str[i] = c

SentinelFree(str) == ~HasChar(str, "u0000") /\ ~HasChar(str, "u0001")

RunsOfType(rs, type) == SelectSeq(rs, LAMBDA r : r.type = type)

\* C1: every run handed to the consumer satisfies
\* 0 <= start <= end <= length of the final plain text.
C1_RunsWithinPlainText ==
    pc = "done" =>
        \A k \in 1 .. Len(runs) :
            0 <= runs[k].start /\ runs[k].start <= runs[k].end /\ runs[k].end <= Len(final)

\* C2: for every run handed to the consumer, the final plain text at
\* [start, end) is the content that stood between the run's delimiters when
\* the run was recorded.
C2_RunTextIsInner ==
    pc = "done" =>
        \A k \in 1 .. Len(runs) :
            /\ runs[k].start <= runs[k].end
            /\ runs[k].end <= Len(final)
            /\ Slice(final, runs[k].start, runs[k].end) = runs[k].inner

\* C3: a later style pass leaves every character in front of the end of an
\* already recorded run at its position: for each run recorded before the
\* pass, positions [0, end) of the pass's input hold the same characters in
\* the pass's output.
C3_LaterPassKeepsRecordedPrefix ==
    [][pc' \in {"bold", "italic", "code"} =>
          \A k \in 1 .. Len(runs) :
              \A q \in 1 .. runs[k].end :
                  q <= Len(text) => (q <= Len(text') /\ text'[q] = text[q])]_vars

UnterminatedInputs ==
    { <<"*", "*", "b", "o", "l", "d">>, <<"*", "*", "b">>, <<"*", "b">>, <<"u0060", "b">> }

\* C5: an open delimiter without a close reaches the final plain text as
\* literal characters and produces no run.
C5_UnterminatedIsLiteral ==
    (pc = "done" /\ arg.defined /\ arg.str \in UnterminatedInputs) =>
        (final = arg.str /\ runs = <<>>)

\* a is a subsequence of b
RECURSIVE IsSubseqFrom(_, _, _, _)
IsSubseqFrom(a, i, b, j) ==
    IF i > Len(a) THEN TRUE
    ELSE IF j > Len(b) THEN FALSE
    ELSE IF a[i] = b[j] THEN IsSubseqFrom(a, i + 1, b, j + 1)
    ELSE IsSubseqFrom(a, i, b, j + 1)

IsSubseq(a, b) == IsSubseqFrom(a, 1, b, 1)

CountChar(str, c) == Cardinality({i \in 1 .. Len(str) : str[i] = c})

CharsOf(str) == {str[i] : i \in 1 .. Len(str)}

\* out with the open token put back in front of every run and the close
\* token behind it; rs are the runs of one pass, in order, offsets into out
RECURSIVE Reinsert(_, _, _, _, _)
Reinsert(out, from, rs, open, close) ==
    IF rs = <<>> THEN SliceFrom(out, from)
    ELSE Slice(out, from, Head(rs).start) \o open
         \o Slice(out, Head(rs).start, Head(rs).end) \o close
         \o Reinsert(out, Head(rs).end, Tail(rs), open, close)

\* the open / close token of the pass that leads to position p
PassOpen(v, p) == IF p = "linked" THEN <<"u0000">> ELSE OpenToken(v, p)

PassClose(v, p) == IF p = "linked" THEN <<"u0001">> ELSE CloseToken(v, p)

\* str with every marker of part_001 replaced by the delimiter it stands for
RECURSIVE Unmark(_)
Unmark(str) ==
    IF str = <<>> THEN <<>>
    ELSE (IF Head(str) \in {"u0002", "u0003"} THEN <<"*", "*">>
          ELSE IF Head(str) \in {"u0004", "u0005"} THEN <<"*">>
          ELSE IF Head(str) \in {"u0006", "u0007"} THEN <<"u0060">>
          ELSE <<Head(str)>>) \o Unmark(Tail(str))

\* C6: every expansion pass (sentinel resolution, bold, italic, code) outputs
\* its input with only the matched open / close tokens deleted: the output
\* is a subsequence of the input, every character that is not a delimiter
\* character occurs as often as before, the output is shorter by exactly the
\* tokens of the matched pairs, and putting the tokens back around the runs
\* of the pass gives the input again.  The marking step of part_001 only
\* exchanges delimiters for markers: writing the delimiters back restores
\* its input.
C6_PassDeletesOnlyMatchedTokens ==
    [][/\ pc' = "marked" => Unmark(text') = text
       /\ pc' \in {"linked", "bold", "italic", "code"} =>
          LET open    == PassOpen(variant, pc')
              close   == PassClose(variant, pc')
              newRuns == SubSeq(runs', Len(runs) + 1, Len(runs'))
              pairs   == IF pc' = "linked" THEN linkIdx' - linkIdx ELSE Len(newRuns)
          IN  /\ IsSubseq(text', text)
              /\ \A c \in CharsOf(text) \ (CharsOf(open) \cup CharsOf(close)) :
                     CountChar(text', c) = CountChar(text, c)
              /\ Len(text) - Len(text') = pairs * (Len(open) + Len(close))
              /\ Len(newRuns) = pairs => Reinsert(text', 0, newRuns, open, close) = text]_vars

\* C6 witness: a pass has matched a pair and has also copied an open token
\* that had no close token.
C6_Witness ==
    /\ pc \in {"bold", "italic", "code"}
    /\ variant = "p2"
    /\ runs # <<>>
    /\ runs[Len(runs)].type = pc
    /\ CountOcc(text, OpenToken(variant, pc)) >= 1

Rank(type) ==
    CASE type = "link" -> 1 [] type = "bold" -> 2 [] type = "italic" -> 3 [] type = "code" -> 4

\* C7: the run list is ordered by pass (link, bold, italic, code) and, within
\* one kind, left to right.
C7_RunOrder ==
    pc = "done" =>
        \A i, j \in 1 .. Len(runs) :
            i < j => /\ Rank(runs[i].type) <= Rank(runs[j].type)
                     /\ runs[i].type = runs[j].type => runs[i].start <= runs[j].start

\* C7 witness: a result with two runs of one kind and a run of another kind.
C7_Witness ==
    /\ pc = "done"
    /\ \E i, j, k \in 1 .. Len(runs) :
           i < j /\ runs[i].type = runs[j].type /\ runs[i].start < runs[j].start
                 /\ runs[k].type # runs[i].type

\* the well-formed links of an input, read off the input itself
\* the well-formed links of the inputs, as written, with label and url
KnownLinks ==
    { [syn |-> LinkA, label |-> <<"a">>, url |-> <<"h", "t", "t", "p", ":", "/", "/", "x">>],
      [syn |-> LinkStyled, label |-> <<"*", "c", "*">>,
       url |-> <<"h", "t", "t", "p", "s", ":", "/", "/", "y">>],
      [syn |-> <<"[", "a", "]", "(", "h", "t", "t", "p", "s", ":", "/", "/", "x", ")">>,
       label |-> <<"a">>, url |-> <<"h", "t", "t", "p", "s", ":", "/", "/", "x">>],
      [syn |-> ScClick, label |-> <<"C", "l", "i", "c", "k">>,
       url |-> <<"h", "t", "t", "p", "s", ":", "/", "/", "x", ".", "c", "o", "m">>] }

KnownLinkAt(str, i) == CHOOSE l \in KnownLinks : StartsWithAt(str, l.syn, i)

WellFormedLinkAt(str, i) == \E l \in KnownLinks : StartsWithAt(str, l.syn, i)

WellFormedLinkCount(str) == Cardinality({i \in 0 .. Len(str) : WellFormedLinkAt(str, i)})

\* position of the k-th well-formed link, left to right
KthLinkPos(str, k) ==
    LET P == {i \in 0 .. Len(str) : WellFormedLinkAt(str, i)}
    IN  CHOOSE p \in P : Cardinality({q \in P : q < p}) = k - 1

ExpectedUrl(str, k) == KnownLinkAt(str, KthLinkPos(str, k)).url

ExpectedLabel(str, k) == KnownLinkAt(str, KthLinkPos(str, k)).label

\* C8: for an input without sentinel characters that holds n well-formed
\* links, n Link runs are emitted, the k-th carries the url of the k-th link
\* and one queue entry was consumed per link.
C8_LinkUrlsFifo ==
    (pc = "done" /\ arg.defined /\ SentinelFree(arg.str)) =>
        LET lr == RunsOfType(runs, "link")
            n  == WellFormedLinkCount(arg.str)
        IN  /\ Len(lr) = n
            /\ Len(linkRuns) = n
            /\ linkIdx = n
            /\ \A k \in 1 .. n : /\ lr[k].url = ExpectedUrl(arg.str, k)
                                 /\ lr[k].url = linkRuns[k].url

\* C8 witness: a result with two Link runs of different urls.
C8_Witness ==
    /\ pc = "done"
    /\ SentinelFree(arg.str)
    /\ \E i, j \in 1 .. Len(runs) :
           i < j /\ runs[i].type = "link" /\ runs[j].type = "link" /\ runs[i].url # runs[j].url

\* inputs whose only delimiter characters stand inside link labels
StyledLabelInput(str) ==
    /\ SentinelFree(str)
    /\ CountOcc(str, LinkStyled) >= 1
    /\ CountChar(str, "*") = 2 * CountOcc(str, LinkStyled)
    /\ ~HasChar(str, "u0060")
    /\ ~HasChar(str, "#")

MalformedCount(str) == CountOcc(str, LinkFtp) + CountOcc(str, LinkOpen)

\* C10: malformed link syntax is literal text for the link pass: it is still
\* there after the pass, gives no Link run and takes no queue entry, and the
\* well-formed links around it keep their own urls.
C10_MalformedLinkIsLiteral ==
    (pc = "linked" /\ arg.defined /\ SentinelFree(arg.str) /\ MalformedCount(md) >= 1) =>
        LET lr == RunsOfType(runs, "link")
            n  == WellFormedLinkCount(arg.str)
        IN  /\ CountOcc(text, LinkFtp) = CountOcc(md, LinkFtp)
            /\ CountOcc(text, LinkOpen) = CountOcc(md, LinkOpen)
            /\ Len(lr) = n
            /\ Len(linkRuns) = n
            /\ linkIdx = n
            /\ \A k \in 1 .. n : /\ lr[k].url = ExpectedUrl(arg.str, k)
                                 /\ linkRuns[k].label = ExpectedLabel(arg.str, k)

\* C10 witness: the link pass has run over a malformed link followed by a
\* well-formed one.
C10_Witness ==
    /\ pc = "linked"
    /\ SentinelFree(arg.str)
    /\ MalformedCount(md) >= 1
    /\ \E k \in 1 .. Len(runs) : runs[k].type = "link" /\ runs[k].start > 0

\* C12: an empty or absent argument gives an empty plain text and no runs,
\* and the empty string from stripMarkdown_.
C12_EmptyInput ==
    (~arg.defined \/ arg.str = <<>>) =>
        /\ pc = "done" => (final = <<>> /\ runs = <<>>)
        /\ pc = "stripped" => s = <<>>

\* C12 witness: a call without an argument has returned.
C12_Witness == pc = "done" /\ ~arg.defined

\* C13: stripMarkdown_ applied to its own result returns that result.
C13_StripIdempotent == [][pc' = "restripped" => s' = s]_vars

\* C15: a later pass records its offsets in the text as shortened by the
\* earlier passes: [a](https://x) **b** gives the plain text "a b" and the
\* runs Link 0..1 with url https://x, then Bold 2..3.
C15_LinkThenBold ==
    (pc = "done" /\ arg.str = ScLinkBold) =>
        /\ final = <<"a", " ", "b">>
        /\ Len(runs) = 2
        /\ runs[1].type = "link" /\ runs[1].start = 0 /\ runs[1].end = 1
        /\ runs[1].url = <<"h", "t", "t", "p", "s", ":", "/", "/", "x">>
        /\ runs[2].type = "bold" /\ runs[2].start = 2 /\ runs[2].end = 3

\* C15 witness: the call on [a](https://x) **b** has returned.
C15_Witness == pc = "done" /\ arg.str = ScLinkBold

\* C16: **Bold** and (backquote)code(backquote) gives the plain text
\* "Bold and code" and the runs Bold 0..4, then Code 9..13.
C16_BoldAndCode ==
    (pc = "done" /\ arg.str = ScBoldCode) =>
        /\ final = <<"B", "o", "l", "d", " ", "a", "n", "d", " ", "c", "o", "d", "e">>
        /\ Len(runs) = 2
        /\ runs[1].type = "bold" /\ runs[1].start = 0 /\ runs[1].end = 4
        /\ runs[2].type = "code" /\ runs[2].start = 9 /\ runs[2].end = 13

\* C16 witness: the call on that input has returned.
C16_Witness == pc = "done" /\ arg.str = ScBoldCode

\* label and url of the inputs that are exactly one well-formed link
SingleLinks ==
    { <<<<"a">>, <<"h", "t", "t", "p", ":", "/", "/", "x">>>>,
      <<<<"C", "l", "i", "c", "k">>, <<"h", "t", "t", "p", "s", ":", "/", "/", "x", ".", "c", "o", "m">>>> }

LinkSyntax(label, url) == <<"[">> \o label \o <<"]", "(">> \o url \o <<")">>

\* C17: an input that is exactly one well-formed link [L](U) with a plain
\* label gives the plain text L and exactly one run, Link [0, len(L)) with
\* url U.
C17_SingleLink ==
    pc = "done" =>
        \A lu \in SingleLinks :
            arg.str = LinkSyntax(lu[1], lu[2]) =>
                /\ final = lu[1]
                /\ Len(runs) = 1
                /\ runs[1].type = "link" /\ runs[1].start = 0 /\ runs[1].end = Len(lu[1])
                /\ runs[1].url = lu[2]

\* C17 witness: the call on [Click](https://x.com) has returned.
C17_Witness == pc = "done" /\ arg.str = ScClick

\* inputs of stripMarkdown_ with the plain text each substitution rule gives
StripTable ==
    { <<<<"#", "#", " ", "T", "i", "t", "l", "e">>,
        <<"T", "i", "t", "l", "e">>>>,
      <<<<"[", "a", "]", "(", "h", "t", "t", "p", ":", "/", "/", "x", ")">>,
        <<"a", " ", "(", "h", "t", "t", "p", ":", "/", "/", "x", ")">>>>,
      <<<<"[", "C", "l", "i", "c", "k", "]", "(", "h", "t", "t", "p", "s", ":", "/", "/", "x", ".", "c", "o", "m", ")">>,
        <<"C", "l", "i", "c", "k", " ", "(", "h", "t", "t", "p", "s", ":", "/", "/", "x", ".", "c", "o", "m", ")">>>>,
      <<<<"*", "*", "b", "*", "*">>,
        <<"b">>>>,
      <<<<"*", "b", "*">>,
        <<"b">>>>,
      <<<<"u0060", "b", "u0060">>,
        <<"b">>>>,
      <<<<"-", " ", "i", "t", "e", "m">>,
        <<"u2022", " ", "i", "t", "e", "m">>>>,
      <<<<"*", " ", "b">>,
        <<"u2022", " ", "b">>>>,
      <<<<"*", "*", "B", "o", "l", "d", "*", "*", " ", "a", "n", "d", " ", "u0060", "c", "o", "d", "e", "u0060">>,
        <<"B", "o", "l", "d", " ", "a", "n", "d", " ", "c", "o", "d", "e">>>>,
      <<<<"[", "a", "]", "(", "h", "t", "t", "p", "s", ":", "/", "/", "x", ")", " ", "*", "*", "b", "*", "*">>,
        <<"a", " ", "(", "h", "t", "t", "p", "s", ":", "/", "/", "x", ")", " ", "b">>>>,
      <<<<"#", " ", "b">>,
        <<"b">>>>,
      <<<<"#", "#", "b">>,
        <<"b">>>> }

BulletPrefixAt(str, m) ==
    /\ str[m] = "-"
    /\ m < Len(str) /\ IsWs(str[m + 1])
    /\ \E p \in 1 .. m : (p = 1 \/ IsLineTerm(str[p - 1])) /\ \A j \in p .. (m - 1) : IsWs(str[j])

\* no markup delimiter: no line starts with '#', no bullet prefix, no '*',
\* no backquote, no '[', none of the control characters u0000 .. u0007
NoMarkup(str) ==
    /\ \A c \in {"*", "u0060", "[", "u0000", "u0001", "u0002", "u0003",
                 "u0004", "u0005", "u0006", "u0007"} : ~HasChar(str, c)
    /\ \A p \in 1 .. Len(str) : str[p] = "#" => ~(p = 1 \/ IsLineTerm(str[p - 1]))
    /\ \A m \in 1 .. Len(str) : ~BulletPrefixAt(str, m)

\* line terminators normalised in two sweeps: every \r\n to \n, then every
\* remaining \r to \n
RECURSIVE CrLfToLf(_)
CrLfToLf(str) ==
    IF str = <<>> THEN <<>>
    ELSE IF Len(str) >= 2 /\ str[1] = "\r" /\ str[2] = "\n"
         THEN <<"\n">> \o CrLfToLf(SubSeq(str, 3, Len(str)))
         ELSE <<Head(str)>> \o CrLfToLf(Tail(str))

CrToLf(str) == [i \in 1 .. Len(str) |-> IF str[i] = "\r" THEN "\n" ELSE str[i]]

\* C11: an input without markup delimiters gives the input with its line
\* terminators normalised to \n as the plain text, and no runs.
C11_PlainPassesThrough ==
    (pc = "done" /\ NoMarkup(arg.str)) =>
        (final = CrToLf(CrLfToLf(arg.str)) /\ runs = <<>>)

\* C11 witness: the call has returned for an input without markup that
\* holds \r\n, a '#' and a '-'.
C11_Witness ==
    /\ pc = "done"
    /\ NoMarkup(arg.str)
    /\ CountOcc(arg.str, <<"\r", "\n">>) >= 1
    /\ HasChar(arg.str, "#") \/ HasChar(arg.str, "-")

\* C18: a heading line of level 1 to 6 with a plain text T gives, for every
\* level, the plain text trim(T) and the single run Bold [0, len(trim(T))).
C18_HeadingIsBoldLine ==
    pc = "done" =>
        \A k \in 1 .. 6, sp \in Blanks, tt \in HeadingTexts :
            arg.str = Hashes(k) \o sp \o tt[1] =>
                /\ final = tt[2]
                /\ Len(runs) = 1
                /\ runs[1].type = "bold" /\ runs[1].start = 0 /\ runs[1].end = Len(tt[2])

\* C18 witness: the call has returned for a level 6 heading whose text ends
\* in a blank.
C18_Witness ==
    pc = "done" /\ arg.str = Hashes(6) \o <<" ">> \o <<"a", " ", "b", " ">>

\* C19: the prefix of a bullet line (optional whitespace, '-' or '*', at
\* least one whitespace character) is replaced by the bullet glyph and one
\* blank; the rest of the line is left as it is by the rewrite and then goes
\* through the style passes, the prefix giving no run.
C19_BulletPrefix ==
    \A lead \in Blanks, mk \in {"-", "*"}, gap \in Blanks \ {<<>>}, br \in BulletRests :
        arg.str = lead \o <<mk>> \o gap \o br.rest =>
            /\ pc = "normalized" => md = <<"u2022", " ">> \o br.rest
            /\ pc = "done" =>
                   /\ final = <<"u2022", " ">> \o br.plain
                   /\ Len(runs) = Len(br.runs)
                   /\ \A i \in 1 .. Len(br.runs) :
                          /\ runs[i].type = br.runs[i].type
                          /\ runs[i].start = br.runs[i].start + 2
                          /\ runs[i].end = br.runs[i].end + 2

\* C19 witness: the call has returned for an indented '*' bullet whose rest
\* holds a bold span.
C19_Witness ==
    pc = "done" /\ arg.str = <<" ", " ", "*", " ", "*", "*", "b", "*", "*">>

\* C23: the heading and bullet rewrites are line-scoped: they remove no line
\* terminator (so no two lines are merged): the text after the rewrites has
\* as many \n as the input has after its line terminators were normalised.
C23_RewritesKeepLineTerminators ==
    pc = "normalized" => CountChar(md, "\n") = CountChar(NormalizeEol(arg.str), "\n")

\* C24: the runs of one pass are ordered and pairwise disjoint: among the
\* runs of one kind, each run starts at or after the end of the one emitted
\* before it.
C24_RunsOfOnePassDisjoint ==
    \A type \in {"link", "bold", "italic", "code"} :
        LET rs == RunsOfType(runs, type)
        IN  \A k \in 1 .. (Len(rs) - 1) :
                rs[k].start <= rs[k].end /\ rs[k].end <= rs[k + 1].start

\* C24 witness: one pass has emitted two non-empty runs.
C24_Witness ==
    \E i, j \in 1 .. Len(runs) :
        /\ i < j
        /\ runs[i].type = runs[j].type
        /\ runs[i].start < runs[i].end
        /\ runs[j].start < runs[j].end

ControlFree(str) ==
    \A c \in {"u0000", "u0001", "u0002", "u0003", "u0004", "u0005", "u0006", "u0007"} :
        ~HasChar(str, c)

\* what the code stores of a run: start, end, type and, for a link, url
StoredRuns(rs) ==
    [k \in 1 .. Len(rs) |->
        IF rs[k].type = "link"
        THEN <<rs[k].start, rs[k].end, rs[k].type, rs[k].url>>
        ELSE <<rs[k].start, rs[k].end, rs[k].type, <<>>>>]

OtherCopy(v) == IF v = "p1" THEN "p2" ELSE "p1"

\* C25: for an input without control characters the two copies of
\* buildRichTextFromMarkdown_ give the same plain text and the same runs.
C25_CopiesEquivalent ==
    (pc = "done" /\ ControlFree(arg.str)) =>
        LET o == buildRichTextFromMarkdown_(OtherCopy(variant), arg)
        IN  final = o.final /\ StoredRuns(runs) = StoredRuns(o.runs)

\* the steps of a call compute what the function computes as a whole
StepsComputeFunction ==
    pc = "done" =>
        LET r == buildRichTextFromMarkdown_(variant, arg)
        IN  final = r.final /\ runs = r.runs

\* tok occurs in str at some position >= from
OccursFrom(str, tok, from) == \E q \in from .. Len(str) : StartsWithAt(str, tok, q)

\* C21: when, within one pass, the next open token has no close token after
\* it, the iteration appends the text in front of it and exactly the open
\* token's characters to the output, emits no run, takes no queue entry, and
\* the scan goes on immediately behind the open token.
C21_UnclosedOpenIsCopied ==
    [][/\ (/\ pc = "styleloop"
           /\ pos < Len(text)
           /\ OccursFrom(text, OpenToken(variant, pass), pos)
           /\ LET o == IndexOf(text, OpenToken(variant, pass), pos)
              IN  ~OccursFrom(text, CloseToken(variant, pass), o + Len(OpenToken(variant, pass))))
          => LET open == OpenToken(variant, pass)
                 o    == IndexOf(text, open, pos)
             IN  /\ acc' = acc \o Slice(text, pos, o) \o open
                 /\ runs' = runs
                 /\ pos' = o + Len(open)
                 /\ pc' = "styleloop"
       /\ (/\ pc = "linkloop"
           /\ pos < Len(text)
           /\ text[pos + 1] = "u0000"
           /\ ~OccursFrom(text, <<"u0001">>, pos + 1))
          => /\ acc' = acc \o <<"u0000">>
             /\ runs' = runs
             /\ linkIdx' = linkIdx
             /\ pos' = pos + 1
             /\ pc' = "linkloop"]_vars

\* C21 witness: the bold pass of part_001 has copied an open marker that has
\* no close marker and is scanning the rest of its input behind it.
C21_Witness ==
    /\ pc = "styleloop"
    /\ variant = "p1"
    /\ pass = "bold"
    /\ 0 < pos /\ pos < Len(text)
    /\ text[pos] = "u0002"
    /\ ~HasChar(text, "u0003")
    /\ acc = Slice(text, 0, pos)
    /\ runs = <<>>

\* C22: every iteration of a pass moves the cursor forward within the input,
\* or leaves the loop with the rest of the input copied to the output; a loop
\* is left only with the whole input consumed; and every pass that was
\* started stops.
C22_PassTerminates ==
    /\ [][(pc \in {"linkloop", "styleloop"} /\ pos < Len(text))
             => \/ pos < pos' /\ pos' <= Len(text) /\ pc' = pc
                \/ pc' = "stylebreak" /\ acc' = acc \o SliceFrom(text, pos)]_vars
    /\ [][(pc \in {"linkloop", "styleloop"} /\ pc' \notin {"linkloop", "styleloop", "stylebreak"})
             => pos = Len(text)]_vars
    /\ (pc = "linkloop") ~> (pc = "linked")
    /\ (pc = "styleloop") ~> (pc \in {"bold", "italic", "code"})

\* C22 witness: a style pass has moved its cursor behind a matched close
\* token and then left the loop from the middle of its input.
C22_Witness ==
    /\ pc = "stylebreak"
    /\ 0 < pos /\ pos < Len(text)
    /\ \E k \in 1 .. Len(runs) : runs[k].type = pass

\* C26: clearTasCVERowsInRange_ removes exactly the data rows whose Pub Date
\* coerces to a date within the window: the rows of the tab afterwards are
\* the rows before it without those rows, in their order, the header row
\* first; the headers are as before.
C26_ClearsExactlyWindowRows ==
    [][pc = "clear" =>
          /\ sheet'.rows = SelectSeq(sheet.rows,
                                     LAMBDA r : r.row0 = 1 \/ ~InWindow(coerceDate_(r.pub), range))
          /\ sheet'.headers = sheet.headers]_vars

\* C26 witness: two blocks were deleted, above and below a row that stayed.
C26_Witness ==
    /\ pc = "fetch"
    /\ log = <<"deleteRows", "deleteRows">>
    /\ Len(sheet.rows) = 2
    /\ sheet.rows[2].row0 = 3

EffectRank(e) == IF e = "deleteRows" THEN 1 ELSE IF e = "fetch" THEN 2 ELSE 3

\* C27: exportTasCVE validates the headers, then deletes the rows of the
\* window, then fetches, then writes.  With a required header missing no
\* call to deleteRows, to the endpoint or to setValues is made.  The calls
\* made are in the order deleteRows, fetch, setValues.  When a fetch fails
\* with a status outside 2xx, the rows of the window are gone from the tab
\* and nothing has been written.
C27_StepsInOrder ==
    /\ ~(required \subseteq sheet.headers) =>
           (log = <<>> /\ pc \in {"validate", "headersMissing"})
    /\ pc \in {"validate", "clear"} => log = <<>>
    /\ \A a, b \in 1 .. Len(log) : a < b => EffectRank(log[a]) <= EffectRank(log[b])
    /\ (\E a \in 1 .. Len(log) : log[a] = "setValues") => pc = "exported"
    /\ pc = "httpError" =>
           /\ log[Len(log)] = "fetch"
           /\ \A k \in 2 .. Len(sheet.rows) :
                  /\ sheet.rows[k].row0 # 0
                  /\ ~InWindow(coerceDate_(sheet.rows[k].pub), range)

\* C27 witness: the second request failed after rows had been deleted.
C27_Witness ==
    /\ pc = "httpError"
    /\ log = <<"deleteRows", "fetch", "fetch">>

\* C28: fetchAdvisoriesWindowed_ makes at most MAX_PAGES requests; it keeps
\* only items whose parsed date is within the window; a page without
\* nextPage, or whose oldest parsed date is before startDate, is the last
\* one requested; and the loop is left whatever the endpoint answers.
C28_FetchBoundedAndWindowed ==
    /\ [](CountOcc(log, <<"fetch">>) <= MAX_PAGES)
    /\ [](\A k \in 1 .. Len(results) :
             InWindow(parseBroadcomDate_(results[k].published), range))
    /\ [][(/\ pc = "fetch"
           /\ iter < MAX_PAGES
           /\ Response(server, page).code = 200
           /\ Response(server, page).json
           /\ \/ Response(server, page).nextPage = Null
              \/ \E k \in 1 .. Len(Response(server, page).list) :
                    /\ Response(server, page).list[k].published.ok
                    /\ Response(server, page).list[k].published.t < range.startDate)
             => pc' = "fetched"]_vars
    /\ (pc = "fetch") ~> (pc \in {"fetched", "httpError", "badJson"})

\* C28 witness: the loop ended because MAX_PAGES requests had been made, each
\* of which added an item.
C28_Witness ==
    /\ pc = "fetched"
    /\ iter = MAX_PAGES
    /\ CountOcc(log, <<"fetch">>) = MAX_PAGES
    /\ Len(results) >= MAX_PAGES

\* the key of an advisory and whether advisoriesToRows_ may turn it into a row
KeyOf(a) ==
    <<Trim(a.notificationId.str), parseBroadcomDate_(a.published), Trim(a.notificationUrl)>>

Eligible(a, rg) ==
    /\ ~a.notificationId.null
    /\ InWindow(parseBroadcomDate_(a.published), rg)
    /\ Trim(a.notificationId.str) # <<>>
    /\ Trim(a.notificationUrl) # <<>>

\* C29: advisoriesToRows_ outputs no two rows with the same (id, published
\* day, link) key; the rows are those of the first eligible advisory of each
\* key; every row has a non-empty id and link and a date within the window.
C29_RowsUniquePerKey ==
    pc = "transformed" =>
        /\ \A a, b \in 1 .. Len(rows) :
               a # b => <<rows[a].advisoryId, rows[a].pub, rows[a].advisoryUrl>>
                        # <<rows[b].advisoryId, rows[b].pub, rows[b].advisoryUrl>>
        /\ \A a \in 1 .. Len(rows) :
               /\ rows[a].advisoryId # <<>>
               /\ rows[a].advisoryUrl # <<>>
               /\ InWindow(rows[a].pub, range)
               /\ \E k \in 1 .. Len(results) :
                      /\ Eligible(results[k], range)
                      /\ KeyOf(results[k])
                         = <<rows[a].advisoryId, rows[a].pub, rows[a].advisoryUrl>>
                      /\ Trim(results[k].severity) = rows[a].severity
                      /\ \A j \in 1 .. (k - 1) :
                             ~(Eligible(results[j], range) /\ KeyOf(results[j]) = KeyOf(results[k]))
        /\ \A k \in 1 .. Len(results) :
               Eligible(results[k], range) =>
                   \E a \in 1 .. Len(rows) :
                       KeyOf(results[k]) = <<rows[a].advisoryId, rows[a].pub, rows[a].advisoryUrl>>

\* C29 witness: of two advisories with the same key after trimming the first
\* one was kept, next to an advisory with another key.
C29_Witness ==
    /\ pc = "transformed"
    /\ results = <<ItA1b, ItB1, ItA1>>
    /\ Len(rows) = 2

----------------------------------------------------------------------------
(* orderTasksHierarchically_                                                *)

\* the task of the list with the given id, as a set of at most one task
TaskWithId(id) == {tasks[k] : k \in {j \in 1 .. Len(tasks) : tasks[j].id = id}}

\* t is a root, or one of at most n steps along the parent fields from t
\* arrives at a root
RECURSIVE RootedWithin(_, _)
RootedWithin(t, n) ==
    \/ t.parent = NoParent
    \/ /\ n > 0
       /\ \E p \in TaskWithId(t.parent) : RootedWithin(p, n - 1)

\* the places of result that hold the task t
PlacesOf(t) == {k \in 1 .. Len(result) : result[k].task = t}

\* C30: orderTasksHierarchically_ terminates on every list of tasks with
\* unique ids, missing parents and cycles of parents included; result holds
\* each task at most once, a task without parent at level 0, every other task
\* behind its parent and one level below it, and exactly the tasks from
\* which the parent fields lead to a root
C30_OrdersEveryRootedTaskOnce ==
    /\ [](pc = "ordered" =>
            /\ \A k \in 1 .. Len(tasks) :
                  /\ Cardinality(PlacesOf(tasks[k])) <= 1
                  /\ (PlacesOf(tasks[k]) # {}) <=> RootedWithin(tasks[k], Len(tasks))
            /\ \A k \in 1 .. Len(result) :
                  /\ \E j \in 1 .. Len(tasks) : tasks[j] = result[k].task
                  /\ IF result[k].task.parent = NoParent
                     THEN result[k].level = 0
                     ELSE \E j \in 1 .. k - 1 :
                             /\ result[j].task.id = result[k].task.parent
                             /\ result[k].level = result[j].level + 1)
    /\ [](Len(result) <= Len(tasks))
    /\ (pc = "index") ~> (pc = "ordered")

\* a root with a sub-task is ordered, and a task that is its own parent is
\* left out
C30_Witness ==
    /\ pc = "ordered"
    /\ Len(tasks) = 3
    /\ Len(result) = 2
    /\ result[1].level = 0
    /\ result[2].level = 1
    /\ \E k \in 1 .. 3 : tasks[k].parent = tasks[k].id /\ PlacesOf(tasks[k]) = {}

====
